---- MODULE Spec2Model ----
(***************************************************************************)
(* py2deb: conversion of Python source distributions to Debian packages.   *)
(* Two generations of the converter live in the repository:                *)
(*   src/py2deb/converter.py       module-level functions (convert, ...)   *)
(*   src/py2deb/util/converter.py  class Converter                         *)
(* The module holds four state machines:                                   *)
(*   SpecResolve  get_required_packages / get_related_packages of          *)
(*                converter.py, one step per loop iteration and per call   *)
(*                or return of the recursion;                              *)
(*   Spec         a whole conversion run of either generation, and a       *)
(*                second call of convert of converter.py;                  *)
(*   SpecPatch    a run from patch_control on, over every control file     *)
(*                and configuration section;                               *)
(*   SpecStore    persist_dependencies / recall_dependencies of            *)
(*                util/converter.py over several requirement files.        *)
(***************************************************************************)
EXTENDS Integers, Sequences, FiniteSets, TLC

\* Package names pip may hand back, or that a package may declare as a
\* dependency.
Names == {"a", "b", "c"}

\* Largest number of declared dependencies (py_dependencies) of one package.
MaxDeps == 2

\* The interpreter's bound on nested calls (sys.getrecursionlimit(), 1000 in
\* CPython 2), scaled down: an acyclic chain over Names nests at most
\* Cardinality(Names) calls, so only a cyclic dependency reaches it.
RecursionLimit == 4

\* The names a conversion run fetches (a run over all of Names adds states,
\* not cases).
RunNames == {"a", "b"}

\* Versions an artifact can declare in its control data.
Versions == {"1.0", "2.0"}

\* Largest number of artifacts in the repository before a run.
MaxRepoFiles == 2

\* get_source_dists(pip_arguments, max_retries=10), in both generations.
max_retries == 10

\* Largest number of '.deb' files one run of dpkg-buildpackage leaves in the
\* parent directory.
MaxProduced == 2

\* Largest number of paragraphs debian/control is tried with.
MaxParagraphs == 3

\* Exit statuses of a subprocess: success, failure, killed by SIGKILL
\* (Popen.returncode is -N when signal N ended the child).
ExitStatuses == {0, 1, -9}

VARIABLES
    \* ---- get_required_packages (converter.py), stepwise ----
    packages,      \* dict: candidate name -> its py_dependencies
    replacements,  \* keys of the [replacements] section
    order,         \* iteration order of the dict packages
    rpc,           \* position inside get_required_packages
    pending,       \* candidates the first loop has not visited yet
    to_ignore,     \* list to_ignore
    stack,         \* call stack of get_related_packages
    to_build,      \* list to_build
    \* ---- a conversion run ----
    variant,       \* "converter": converter.py, "util": util/converter.py
    pc,            \* position inside convert
    error,         \* the exception that ended the run, "" while none
    build_dir,     \* the scratch build directory exists
    i,             \* loop counter of get_source_dists
    unpacks,       \* calls of pip_accel.unpack_source_dists so far
    downloads,     \* calls of pip_accel.download_source_dists so far
    sys_stdout,    \* what sys.stdout is bound to
    ignore,        \* options of the [ignore] section (util/converter.py)
    requirements,  \* the build set: requirements / self.packages
    cur,           \* index of the package being processed
    repo,          \* artifacts in the repository directory
    converted,     \* converter.py: list converted (artifacts read back)
    store,         \* the dependency-store file of this requirements file
    dh_options,    \* os.environ['DH_OPTIONS']
    build_entered, \* history: build was entered for a package of this run
    started,       \* history: the last subprocess run() started, and the
                   \* DH_OPTIONS of the environment it inherited
    parent_debs,   \* '.deb' files in the parent of the source directories
    \* ---- history of the run (not program state) ----
    cur_ops,       \* operations started for the current package, in order
    prev_ok,       \* the last operation of the current package succeeded
    any_failed,    \* some operation of the run failed
    entered,       \* packages some build operation was started for
    hits,          \* packages the repository held a match for when reached
    done,          \* packages skipped as built, or built and collected
    fetched,       \* names of the source distributions pip-accel returned
    store_written, \* this run wrote the dependency-store file
    last_status,   \* exit status of the last external tool of the loop
    run_no,        \* 1, or 2 in a second call of convert
    first_run,     \* what the first call fetched, found, built and returned
    \* ---- the dependency store of util/converter.py ----
    req_files,     \* requirement files: path -> content
    dep_store,     \* files of DEPENDENCY_STORE: file name -> content
    persisted,     \* history: content -> the list last persisted for it
    recalled,      \* outcome of the last recall_dependencies
    \* ---- debian/control of the package being processed ----
    control,        \* the file: a list of paragraphs, field -> items
    control_before, \* history: the file as debianize left it
    patched,        \* history: the file after each run of patch_control
    debian_deps,    \* the package's dependencies, as Debian names
    section         \* options of the package's section, as patch_control
                    \* reads them (the other stages draw what they read)

rvars == <<packages, order, rpc, pending, to_ignore, stack, to_build>>

fetchvars == <<i, unpacks, downloads, sys_stdout>>

histvars == <<cur_ops, prev_ok, any_failed, entered, hits, done, fetched,
              store_written, last_status, run_no, first_run, build_entered, started>>

runvars == <<variant, pc, error, build_dir, fetchvars, ignore, requirements,
             cur, repo, converted, store, dh_options, parent_debs,
             histvars>>

storevars == <<req_files, dep_store, persisted, recalled>>

ctlvars == <<control, control_before, patched, debian_deps, section>>

auxvars == <<storevars, ctlvars>>

vars == <<rvars, replacements, runvars, auxvars>>

----------------------------------------------------------------------------
\* Helpers.

Range(s) == {s[k] : k \in 1..Len(s)}

\* All orderings of a finite set, as sequences without repetition.
Perms(S) == {s \in [1..Cardinality(S) -> S] : Range(s) = S}

\* Every dict pip-accel's result can be turned into: some of the names are
\* candidates, each with at most MaxDeps declared dependencies, candidates or
\* not.
DepSets == {D \in SUBSET Names : Cardinality(D) <= MaxDeps}

CandidateMaps == UNION {[S -> DepSets] : S \in SUBSET Names}

----------------------------------------------------------------------------
\* get_related_packages: one frame per call in progress.

\* A get_related_packages that forgets the loop over py_dependencies.
NewFrame_NoDependencies(name) ==
    IF name \in DOMAIN packages
    THEN [name |-> name, deps |-> {}, related |-> <<name>>]
    ELSE [name |-> name, deps |-> {}, related |-> <<>>]

\* The frame a call get_related_packages(name, packages) starts with:
\* related = [] and, for a candidate, related.append(name) and the loop over
\* its py_dependencies still to run.
NewFrame(name) ==
    IF name \in DOMAIN packages
    THEN [name |-> name, deps |-> packages[name], related |-> <<name>>]
    ELSE [name |-> name, deps |-> {}, related |-> <<>>]

Top == stack[Len(stack)]

\* First loop of get_required_packages: the next candidate of the dict. A
\* candidate that is a key of replacements starts get_related_packages.
IgnoreLoop ==
    /\ rpc = "ignore_loop"
    /\ pending # <<>>
    /\ IF Head(pending) \in replacements
       THEN /\ stack' = <<NewFrame(Head(pending))>>
            /\ rpc' = "related"
            /\ UNCHANGED pending
       ELSE /\ pending' = Tail(pending)
            /\ UNCHANGED <<stack, rpc>>
    /\ UNCHANGED <<packages, replacements, order, to_ignore, to_build, runvars, auxvars>>

\* The loop body of get_related_packages: the recursive call for the next
\* declared dependency. A call nested deeper than the interpreter allows
\* raises RuntimeError, which nothing catches.
RelatedCall ==
    /\ rpc = "related"
    /\ Top.deps # {}
    /\ LET d == CHOOSE x \in Top.deps : TRUE IN
       IF Len(stack) >= RecursionLimit
       THEN /\ rpc' = "RecursionError"
            /\ stack' = <<>>
       ELSE /\ stack' = Append([stack EXCEPT ![Len(stack)].deps = @ \ {d}],
                               NewFrame(d))
            /\ UNCHANGED rpc
    /\ UNCHANGED <<packages, replacements, order, pending, to_ignore, to_build, runvars, auxvars>>

\* return related: the caller extends its own list, the outermost caller
\* (get_required_packages) extends to_ignore and moves to the next candidate.
RelatedReturn ==
    /\ rpc = "related"
    /\ Top.deps = {}
    /\ IF Len(stack) > 1
       THEN /\ stack' = [SubSeq(stack, 1, Len(stack) - 1)
                           EXCEPT ![Len(stack) - 1].related = @ \o Top.related]
            /\ UNCHANGED <<rpc, pending, to_ignore>>
       ELSE /\ stack' = <<>>
            /\ to_ignore' = to_ignore \o Top.related
            /\ pending' = Tail(pending)
            /\ rpc' = "ignore_loop"
    /\ UNCHANGED <<packages, replacements, order, to_build, runvars, auxvars>>

\* A second loop that keeps an ignored candidate which a kept candidate
\* declares.
BuildLoop_KeepShared ==
    /\ rpc = "ignore_loop"
    /\ pending = <<>>
    /\ to_build' = SelectSeq(order, LAMBDA n :
                        \/ n \notin Range(to_ignore)
                        \/ \E b \in DOMAIN packages \ Range(to_ignore) :
                              n \in packages[b])
    /\ rpc' = "done"
    /\ UNCHANGED <<packages, replacements, order, pending, to_ignore, stack, runvars, auxvars>>

\* Second loop of get_required_packages and its return.
BuildLoop ==
    /\ rpc = "ignore_loop"
    /\ pending = <<>>
    /\ to_build' = SelectSeq(order, LAMBDA n : n \notin Range(to_ignore))
    /\ rpc' = "done"
    /\ UNCHANGED <<packages, replacements, order, pending, to_ignore, stack, runvars, auxvars>>

\* What recall_dependencies hands back when it raises: nothing.
NoValue == "no value"

\* The dependency store is not used: no requirement file, an empty
\* DEPENDENCY_STORE, nothing persisted or recalled.
NoStore ==
    /\ req_files = <<>>
    /\ dep_store = <<>>
    /\ persisted = <<>>
    /\ recalled = [file |-> "", raised |-> FALSE, value |-> NoValue,
                   persisted_then |-> NoValue]

\* Before a second call of convert there is no first one to remember.
NoFirstRun == [fetched |-> {}, requirements |-> <<>>, hits |-> {},
               result |-> <<>>]

\* No control file has been generated.
NoControl ==
    /\ control = <<>> /\ control_before = <<>> /\ patched = <<>>

\* No subprocess was started yet.
NoSubprocess == [op |-> "none", env |-> "none", after_build |-> FALSE]

\* No conversion run is in progress.
NoRun ==
    /\ variant = "converter"
    /\ pc = "idle"
    /\ error = ""
    /\ build_dir = FALSE
    /\ i = 0 /\ unpacks = 0 /\ downloads = 0
    /\ sys_stdout = "stdout"
    /\ ignore = {}
    /\ requirements = <<>>
    /\ cur = 0
    /\ repo = {}
    /\ converted = <<>>
    /\ store = [exists |-> FALSE, content |-> ""]
    /\ dh_options = "unset"
    /\ parent_debs = {}
    /\ cur_ops = <<>> /\ prev_ok = TRUE /\ any_failed = FALSE
    /\ entered = {} /\ hits = {} /\ done = {} /\ fetched = {}
    /\ store_written = FALSE
    /\ last_status = 0
    /\ run_no = 1 /\ first_run = NoFirstRun
    /\ build_entered = FALSE /\ started = NoSubprocess

InitResolve ==
    /\ packages \in CandidateMaps
    /\ replacements \in SUBSET Names
    /\ order \in Perms(DOMAIN packages)
    /\ pending = order
    /\ rpc = "ignore_loop"
    /\ to_ignore = <<>>
    /\ stack = <<>>
    /\ to_build = <<>>
    /\ NoRun
    /\ NoStore
    /\ NoControl /\ debian_deps = <<>> /\ section = <<>>

NextResolve == IgnoreLoop \/ RelatedCall \/ RelatedReturn \/ BuildLoop

SpecResolve == InitResolve /\ [][NextResolve]_vars

----------------------------------------------------------------------------
\* get_required_packages as a function of its inputs, for the conversion run
\* (which calls it once, between fetching and building). Computed as the code
\* computes it: unguarded recursion over the declared dependencies, lists
\* extended in place, depth counted against the interpreter's limit.

RECURSIVE get_related_packages(_, _, _)
RECURSIVE related_of_dependencies(_, _, _)

\* for dependency in packages.get(pkg_name).py_dependencies:
\*     related.extend(get_related_packages(dependency, packages))
related_of_dependencies(deps, pkgs, depth) ==
    IF deps = {} THEN [err |-> FALSE, related |-> <<>>]
    ELSE LET d == CHOOSE x \in deps : TRUE
             first == get_related_packages(d, pkgs, depth)
             rest == related_of_dependencies(deps \ {d}, pkgs, depth)
         IN IF first.err \/ rest.err
            THEN [err |-> TRUE, related |-> <<>>]
            ELSE [err |-> FALSE, related |-> first.related \o rest.related]

get_related_packages(pkg_name, pkgs, depth) ==
    IF depth > RecursionLimit THEN [err |-> TRUE, related |-> <<>>]
    ELSE IF pkg_name \notin DOMAIN pkgs THEN [err |-> FALSE, related |-> <<>>]
    ELSE LET sub == related_of_dependencies(pkgs[pkg_name], pkgs, depth + 1)
         IN IF sub.err THEN sub
            ELSE [err |-> FALSE, related |-> <<pkg_name>> \o sub.related]

RECURSIVE ignore_list(_, _, _)
\* for pkg_name, package in packages.iteritems():
\*     if pkg_name in replacements: to_ignore.extend(...)
ignore_list(todo, pkgs, repl) ==
    IF todo = <<>> THEN [err |-> FALSE, related |-> <<>>]
    ELSE LET first == IF Head(todo) \in repl
                      THEN get_related_packages(Head(todo), pkgs, 1)
                      ELSE [err |-> FALSE, related |-> <<>>]
             rest == ignore_list(Tail(todo), pkgs, repl)
         IN IF first.err \/ rest.err
            THEN [err |-> TRUE, related |-> <<>>]
            ELSE [err |-> FALSE, related |-> first.related \o rest.related]

\* The list get_required_packages returns for the dict pkgs iterated in the
\* order ord, or err when the recursion exceeded the interpreter's limit.
get_required_packages(pkgs, ord, repl) ==
    LET ign == ignore_list(ord, pkgs, repl)
    IN IF ign.err THEN [err |-> TRUE, to_build |-> <<>>]
       ELSE [err |-> FALSE,
             to_build |-> SelectSeq(ord, LAMBDA n : n \notin Range(ign.related))]

\* The stepwise machine and the function agree on every input.
ResolveAgrees ==
    LET r == get_required_packages(packages, order, replacements)
    IN /\ rpc = "done" => ~r.err /\ r.to_build = to_build
       /\ rpc = "RecursionError" => r.err
       /\ rpc \in {"done", "RecursionError"} \/ ENABLED NextResolve

----------------------------------------------------------------------------
\* What the claims about get_required_packages speak of.

Candidates == DOMAIN packages

RECURSIVE ReachableFrom(_)
\* The candidates reachable from the set S of candidates through declared
\* dependencies that are themselves candidates (S included).
ReachableFrom(S) ==
    LET T == S \cup {d \in Candidates : \E n \in S : d \in packages[n]}
    IN IF T = S THEN S ELSE ReachableFrom(T)

\* toIgnore of the specification: the union of the closures of the replaced
\* candidates.
ToIgnore == ReachableFrom(Candidates \cap replacements)

RECURSIVE Within(_, _)
\* The candidates reached from the set S in at most j further steps.
Within(S, j) ==
    IF j = 0 THEN S
    ELSE Within(S \cup {d \in Candidates : \E m \in S : d \in packages[m]}, j - 1)

\* The candidate n reaches itself through declared dependencies.
OnCycle(n) ==
    n \in Within({d \in Candidates : d \in packages[n]}, Cardinality(Names))

\* Some candidate on a dependency cycle is reachable from a replaced one.
CyclicInput == \E n \in ToIgnore : OnCycle(n)

\* The interpreter's limit is reached on cyclic inputs only, and on each of
\* them the recursion does not return.
LimitOnlyOnCycles ==
    /\ rpc = "RecursionError" => CyclicInput
    /\ rpc = "done" => ~CyclicInput

(* C1: the closure computation terminates on every finite candidate map,
   cyclic ones included: a name whose expansion is in progress is never
   expanded again, and the recursion never runs into the interpreter's
   limit. *)
C1_TerminatesOnCycles ==
    /\ rpc # "RecursionError"
    /\ \A k, m \in 1..Len(stack) : k < m => stack[k].name # stack[m].name

(* C2: on every candidate map and replacements map get_required_packages
   returns, and what it returns is exactly the candidates outside toIgnore. *)
C2_ReturnsComplement ==
    /\ rpc # "RecursionError"
    /\ rpc = "done" => Range(to_build) = Candidates \ ToIgnore

(* C4 as stated: a replaced candidate A is not in the build set, and a
   candidate B that declares A is in the build set unless B is a key of
   replacements. *)
C4_OnlyKeysExcluded ==
    rpc = "done" =>
        \A A \in Candidates \cap replacements :
            \A B \in Candidates :
                A \in packages[B] =>
                    /\ A \notin Range(to_build)
                    /\ B \notin replacements => B \in Range(to_build)

(* C4 amended: whenever get_required_packages returns, a replaced candidate
   A is not in the build set, and a candidate B that declares A is in the
   build set exactly when B is neither a key of replacements nor reachable
   through declared dependencies from a candidate that is one. *)
C4_DependentKeptUnlessReachable ==
    rpc = "done" =>
        \A A \in Candidates \cap replacements :
            \A B \in Candidates :
                A \in packages[B] =>
                    /\ A \notin Range(to_build)
                    /\ B \in Range(to_build) <=>
                          B \notin ReachableFrom(Candidates \cap replacements)

\* B declares the replaced A, is no key itself, and is built.
C4_Witness ==
    /\ rpc = "done"
    /\ \E A \in Candidates \cap replacements :
          \E B \in Candidates \ replacements :
              /\ A \in packages[B]
              /\ B \in Range(to_build)
              /\ A \notin Range(to_build)

----------------------------------------------------------------------------
\* A conversion run: convert(pip_args, config) of converter.py, or
\* Converter(requirements_file).convert() of util/converter.py.

\* What pip-accel can hand back in a run: candidates among RunNames, each
\* with declared dependencies among Names.
RunCandidateMaps == UNION {[S -> DepSets] : S \in SUBSET RunNames}

Artifacts == [name : RunNames, version : Versions]

\* An uncaught exception ends the run where it is raised.
Raise(e) == pc' = "raised" /\ error' = e

\* The value of run(command, directory, verbose) of py2deb.util for a command
\* that exits with status st: true when the command failed.
run(st) == st # 0

\* Entering the loop over the build set.
StartLoop(reqs, first, last) ==
    /\ requirements' = reqs
    /\ cur' = IF reqs = <<>> THEN 0 ELSE 1
    /\ pc' = IF reqs = <<>> THEN last ELSE first
    /\ cur_ops' = <<>>
    /\ prev_ok' = TRUE

\* convert of converter.py up to the first attempt of get_source_dists: the
\* build directory is made, get_required_packages calls get_source_dists,
\* which redirects sys.stdout and enters its loop.
convert_start ==
    /\ variant = "converter" /\ pc = "start"
    /\ build_dir' = TRUE
    /\ sys_stdout' = "stderr"
    /\ i' = 0
    /\ pc' = "unpack"
    /\ UNCHANGED <<rvars, auxvars, replacements, variant, error, unpacks, downloads, ignore,
                   requirements, cur, repo, converted, store, dh_options,
                   histvars, parent_debs>>

\* Converter.convert up to the first attempt of get_source_dists: preinstall
\* installs the [preinstall] packages, if any, then get_required_packages
\* calls get_source_dists, which sets i = 1.
Converter_convert_start ==
    /\ variant = "util" /\ pc = "start"
    /\ \E has_preinstall \in BOOLEAN, st \in ExitStatuses :
          IF has_preinstall /\ st > 0
          THEN Raise("build_dep") /\ UNCHANGED i
          ELSE /\ i' = 1
               /\ pc' = "unpack"
               /\ UNCHANGED error
    /\ UNCHANGED <<rvars, auxvars, replacements, variant, build_dir, unpacks, downloads,
                   sys_stdout, ignore, requirements, cur, repo, converted,
                   store, dh_options, histvars, parent_debs>>

\* One attempt of get_source_dists of converter.py. A result ends
\* get_source_dists (sys.stdout is restored) and the rest of
\* get_required_packages runs on it.
unpack_source_dists ==
    /\ variant = "converter" /\ pc = "unpack"
    /\ unpacks' = unpacks + 1
    /\ \/ /\ pc' = "download"
          /\ UNCHANGED <<error, sys_stdout, requirements, cur, cur_ops, prev_ok,
                         fetched>>
       \/ /\ Raise("fetch_error")
          /\ sys_stdout' = "stdout"
          /\ UNCHANGED <<requirements, cur, cur_ops, prev_ok, fetched>>
       \/ \E pkgs \in RunCandidateMaps :
            \E ord \in Perms(DOMAIN pkgs) :
              LET r == get_required_packages(pkgs, ord, replacements) IN
              \* a second call is given what the first was given
              /\ run_no = 2 => /\ DOMAIN pkgs = first_run.fetched
                               /\ ~r.err
                               /\ r.to_build = first_run.requirements
              /\ sys_stdout' = "stdout"
              /\ fetched' = DOMAIN pkgs
              /\ IF r.err
                 THEN /\ Raise("recursion_limit")
                      /\ UNCHANGED <<requirements, cur, cur_ops, prev_ok>>
                 ELSE /\ StartLoop(r.to_build, "find_build", "cleanup")
                      /\ UNCHANGED error
    /\ UNCHANGED <<rvars, auxvars, replacements, variant, build_dir, i, downloads,
                   ignore, repo, converted, store, dh_options, any_failed,
                   entered, hits, done, store_written, last_status,
                   parent_debs, run_no, first_run, build_entered, started>>

\* An except branch that passes instead of downloading.
download_source_dists_pass ==
    /\ variant = "converter" /\ pc = "download"
    /\ IF i + 1 < max_retries
       THEN /\ i' = i + 1
            /\ pc' = "unpack"
            /\ UNCHANGED <<error, sys_stdout>>
       ELSE /\ Raise("retries_exceeded")
            /\ sys_stdout' = "stdout"
            /\ UNCHANGED i
    /\ UNCHANGED <<rvars, auxvars, replacements, variant, build_dir, unpacks,
                   downloads, ignore, requirements, cur, repo, converted,
                   store, dh_options, histvars, parent_debs>>

\* The except branch of get_source_dists of converter.py, and the step of
\* its for loop: after the last round the else branch raises.
download_source_dists ==
    /\ variant = "converter" /\ pc = "download"
    /\ downloads' = downloads + 1
    /\ \/ /\ Raise("fetch_error")
          /\ sys_stdout' = "stdout"
          /\ UNCHANGED i
       \/ IF i + 1 < max_retries
          THEN /\ i' = i + 1
               /\ pc' = "unpack"
               /\ UNCHANGED <<error, sys_stdout>>
          ELSE /\ Raise("retries_exceeded")
               /\ sys_stdout' = "stdout"
               /\ UNCHANGED i
    /\ UNCHANGED <<rvars, auxvars, replacements, variant, build_dir, unpacks, ignore,
                   requirements, cur, repo, converted, store, dh_options,
                   histvars, parent_debs>>

\* One attempt of Converter.get_source_dists. A result ends it, and
\* Converter.get_required_packages drops the packages the [ignore] section
\* names.
Converter_unpack_source_dists ==
    /\ variant = "util" /\ pc = "unpack"
    /\ unpacks' = unpacks + 1
    /\ \/ /\ pc' = "download"
          /\ UNCHANGED <<error, requirements, cur, cur_ops, prev_ok, fetched>>
       \/ /\ Raise("fetch_error")
          /\ UNCHANGED <<requirements, cur, cur_ops, prev_ok, fetched>>
       \/ \E S \in SUBSET RunNames :
            \E sdists \in Perms(S) :
              /\ fetched' = S
              /\ StartLoop(SelectSeq(sdists, LAMBDA n : n \notin ignore),
                           "is_built", "persist")
              /\ UNCHANGED error
    /\ UNCHANGED <<rvars, auxvars, replacements, variant, build_dir, i, downloads,
                   sys_stdout, ignore, repo, converted, store, dh_options,
                   any_failed, entered, hits, done, store_written,
                   last_status, parent_debs, run_no, first_run, build_entered, started>>

\* The except branch of Converter.get_source_dists, i += 1 and the test of
\* its while loop.
Converter_download_source_dists ==
    /\ variant = "util" /\ pc = "download"
    /\ downloads' = downloads + 1
    /\ \/ /\ Raise("fetch_error")
          /\ UNCHANGED i
       \/ /\ i' = i + 1
          /\ IF i + 1 < max_retries
             THEN pc' = "unpack" /\ UNCHANGED error
             ELSE Raise("retries_exceeded")
    /\ UNCHANGED <<rvars, auxvars, replacements, variant, build_dir, unpacks,
                   sys_stdout, ignore, requirements, cur, repo, converted,
                   store, dh_options, histvars, parent_debs>>

----------------------------------------------------------------------------
\* debian/control and patch_control. A paragraph (Deb822) maps field names,
\* which do not distinguish case and are written in lower case here, to
\* values; a value is the list of its items ('a, b' is <<"a", "b">>).

\* Every item of a field value, in the order sorted() gives them.
ItemOrder == <<"${misc:Depends}", "custom-name", "fix.sh", "libssl-dev",
               "pl-a", "pl-b", "python", "python-a", "python-b", "python-c",
               "web">>

\* sorted(set(items)) as a list.
SortedItems(items) == SelectSeq(ItemOrder, LAMBDA x : x \in items)

\* d.get(name, ''), as a list of items.
Get(d, name) == IF name \in DOMAIN d THEN d[name] ELSE <<>>

\* d[name] = value
SetField(d, name, value) ==
    [n \in DOMAIN d \cup {name} |-> IF n = name THEN value ELSE d[n]]

\* The option 'custom-prefix' of the section 'general'.
custom_prefix == "pl"

\* py2deb.util.transform_package_name(prefix, name): the native name of a
\* package.
transform_package_name(prefix, name) == prefix \o "-" \o name

\* Package.plname: the native name, in util/converter.py.
plname(name) == transform_package_name(custom_prefix, name)

\* The binary paragraph stdeb generates for a package.
StdebBinary(name) ==
    [n \in {"package", "depends"} |->
        IF n = "package" THEN <<"python-" \o name>> ELSE <<"${misc:Depends}">>]

\* The control file 'setup.py debianize' leaves when it writes n paragraphs:
\* a source paragraph, then binary paragraphs.
StdebControl(n, name) ==
    [k \in 1..n |-> IF k = 1 THEN [f \in {"source"} |-> <<name>>]
                    ELSE StdebBinary(name)]

\* Fields whose values deb_pkg_tools merges as sets of relationships.
DependencyFields == {"depends", "conflicts"}

\* deb_pkg_tools.merge_control_fields(defaults, overrides): dependency
\* fields are united, any other field of overrides replaces that of defaults.
merge_control_fields(defaults, overrides) ==
    [n \in DOMAIN defaults \cup DOMAIN overrides |->
        IF n \in DependencyFields
        THEN SortedItems(Range(Get(defaults, n)) \cup Range(Get(overrides, n)))
        ELSE IF n \in DOMAIN overrides THEN overrides[n] ELSE defaults[n]]

\* control_patch_cfg(package, config): the options of the package's section
\* but 'script'.
control_patch_cfg(sect) == [n \in DOMAIN sect \ {"script"} |-> sect[n]]

\* A patch_control that opens the file for writing before it looks at the
\* paragraphs.
patch_control_file_truncating(file, name, deps, sect) ==
    IF Len(file) # 2 THEN [err |-> TRUE, file |-> <<>>]
    ELSE [err |-> FALSE, file |-> file]

\* patch_control of converter.py on the content of debian/control: the
\* assertion, then Package, Depends and the configured fields, in that order.
patch_control_file(file, name, deps, sect) ==
    IF Len(file) # 2 THEN [err |-> TRUE, file |-> file]
    ELSE LET named == SetField(file[2], "package",
                               <<transform_package_name(custom_prefix, name)>>)
             with_deps == merge_control_fields(named,
                                               [n \in {"depends"} |-> deps])
             with_cfg == merge_control_fields(with_deps, control_patch_cfg(sect))
         IN [err |-> FALSE, file |-> <<file[1], with_cfg>>]

\* Deb822._mergeFields(s1, s2): an empty value yields the other one, else
\* the items of both, sorted, duplicates skipped.
mergeFields(s1, s2) ==
    IF s2 = <<>> THEN s1
    ELSE IF s1 = <<>> THEN s2
    ELSE SortedItems(Range(s1) \cup Range(s2))

\* for field in d1: paragraph.merge_fields(field, d1)
merge_fields(paragraph, d1) ==
    [n \in DOMAIN paragraph \cup DOMAIN d1 |->
        IF n \in DOMAIN paragraph /\ n \in DOMAIN d1
        THEN mergeFields(paragraph[n], d1[n])
        ELSE IF n \in DOMAIN paragraph THEN paragraph[n] ELSE d1[n]]

\* Converter._control_patch(pkg_name): the options of the package's section
\* but 'build-depends'.
Converter_control_patch(sect) ==
    [n \in DOMAIN sect \ {"build-depends"} |-> sect[n]]

\* Package.control_patch(): the Depends field computed from the package's
\* requirements.
control_patch(deps) == [n \in {"depends"} |-> deps]

\* Converter.patch_control on the content of debian/control: the assertion,
\* then the configured fields, the computed fields, and Package last.
Converter_patch_control_file(file, name, deps, sect) ==
    IF Len(file) # 2 THEN [err |-> TRUE, file |-> file]
    ELSE LET with_cfg == merge_fields(file[2], Converter_control_patch(sect))
             with_pkg == merge_fields(with_cfg, control_patch(deps))
             named == SetField(with_pkg, "package", <<plname(name)>>)
         IN [err |-> FALSE, file |-> <<file[1], named>>]

----------------------------------------------------------------------------
\* The loop over the build set.

\* The package the loop is at.
Pkg == requirements[cur]

\* The next iteration of the loop over the build set, or its end.
NextPackage(first, last) ==
    /\ cur' = IF cur < Len(requirements) THEN cur + 1 ELSE cur
    /\ pc' = IF cur < Len(requirements) THEN first ELSE last
    /\ prev_ok' = TRUE

\* An operation of the current package starts.
\* run(command, directory, verbose) of converter.py starts a subprocess, which
\* inherits os.environ as it is at that moment.
Popen(op, env, after_build) ==
    started' = [op |-> op, env |-> env, after_build |-> after_build]

\* build without the assignment to os.environ.
environ_untouched(environ) == environ

\* NO_GUESSING_DEPS is True: build assigns os.environ['DH_OPTIONS'] before it
\* runs the build command, and nothing assigns or deletes it afterwards.
environ_in_build(environ) == "--no-guessing-deps"

Began(op) ==
    /\ cur_ops' = Append(cur_ops, op)
    /\ entered' = entered \cup {Pkg}

\* It fails and the exception leaves convert.
Fail(e) ==
    /\ Raise(e)
    /\ any_failed' = TRUE
    /\ prev_ok' = FALSE
    /\ UNCHANGED cur

\* It succeeds and the next operation of the package is next.
Pass(next) ==
    /\ pc' = next
    /\ prev_ok' = TRUE
    /\ UNCHANGED <<error, any_failed, cur>>

\* It failed, nothing was raised, and the next operation is next.
Unnoticed(next) ==
    /\ pc' = next
    /\ prev_ok' = FALSE
    /\ any_failed' = TRUE
    /\ UNCHANGED <<error, cur>>

\* The entry of the result for an artifact:
\* '%(Package)s (=%(Version)s)' % debfile.debcontrol().
Entry(f) == f.name \o " (=" \o f.version \o ")"

\* A find_build whose pattern is '*.deb'.
find_build_any_deb(package, repository) == repository

\* The artifacts glob.glob(os.path.join(repository,
\* package.debian_file_pattern)) finds: the pattern is '<debian_name>_*.deb'.
find_build(package, repository) == {f \in repository : f.name = package}

\* The repository directory has not changed since the first call of convert
\* listed it for its k-th package: no later package of that call was built.
\* glob then lists the same files in the same order.
SameListing(k) ==
    \A m \in (k + 1)..Len(first_run.requirements) :
        first_run.requirements[m] \in first_run.hits

\* convert of converter.py, top of the loop body: find_build, and on a match
\* the last file of the glob supplies the entry of the result.
convert_find_build ==
    /\ variant = "converter" /\ pc = "find_build"
    /\ hits' = IF \E f \in repo : f.name = Pkg THEN hits \cup {Pkg} ELSE hits
    /\ cur_ops' = <<>>
    /\ LET result == find_build(Pkg, repo) IN
       IF result # {}
       THEN \E debfile \in result :
              /\ (run_no = 2 /\ SameListing(cur)) =>
                    Entry(debfile) = first_run.result[cur]
              /\ converted' = Append(converted, Entry(debfile))
              /\ done' = done \cup {Pkg}
              /\ NextPackage("find_build", "cleanup")
              /\ UNCHANGED <<error, any_failed>>
       ELSE /\ pc' = "debianize"
            /\ UNCHANGED <<error, converted, done, cur, prev_ok, any_failed>>
    /\ UNCHANGED <<rvars, auxvars, replacements, variant, build_dir, fetchvars, ignore,
                   requirements, repo, store, dh_options, entered, fetched,
                   store_written, last_status, parent_debs, run_no, first_run, build_entered, started>>

\* debianize(package, verbose): python setup.py ... debianize, which writes
\* debian/control.
debianize ==
    /\ variant = "converter" /\ pc = "debianize"
    /\ Began("debianize")
    /\ Popen("debianize", dh_options, build_entered)
    /\ \E st \in ExitStatuses, n \in 0..MaxParagraphs :
          /\ last_status' = st
          /\ IF run(st)
             THEN /\ Fail("debianize")
                  /\ UNCHANGED <<control, control_before, patched>>
             ELSE /\ Pass("patch_control")
                  /\ control' = StdebControl(n, Pkg)
                  /\ control_before' = control'
                  /\ patched' = <<>>
    /\ UNCHANGED <<rvars, storevars, debian_deps, section, replacements,
                   variant, build_dir, fetchvars, ignore, requirements, repo,
                   converted, store, dh_options, hits, done, fetched,
                   store_written, parent_debs, run_no, first_run,
                   build_entered>>

\* patch_control(package, replacements, config): the assertion on the number
\* of paragraphs of debian/control, then the rewrite of the file.
patch_control ==
    /\ variant = "converter" /\ pc = "patch_control"
    /\ Began("patch_control")
    /\ LET r == patch_control_file(control, Pkg, debian_deps, section) IN
       /\ control' = r.file
       /\ IF r.err
          THEN Fail("control_format") /\ UNCHANGED patched
          ELSE Pass("apply_script") /\ patched' = Append(patched, r.file)
    /\ UNCHANGED <<rvars, storevars, control_before, debian_deps, section,
                   replacements, variant, build_dir, fetchvars, ignore,
                   requirements, repo, converted, store, dh_options, hits,
                   done, fetched, store_written, last_status, parent_debs,
                   run_no, first_run, build_entered, started>>

\* patch_control once more, on the file it has patched.
patch_control_again ==
    /\ variant = "converter" /\ pc = "apply_script" /\ Len(patched) = 1
    /\ LET r == patch_control_file(control, Pkg, debian_deps, section) IN
       /\ ~r.err
       /\ control' = r.file
       /\ patched' = Append(patched, r.file)
    /\ UNCHANGED <<rvars, storevars, control_before, debian_deps, section,
                   replacements, runvars>>

\* apply_script(package, config, verbose): runs the 'script' option of the
\* package's section, when there is one.
apply_script ==
    /\ variant = "converter" /\ pc = "apply_script"
    /\ \E has_script \in BOOLEAN, st \in ExitStatuses :
          IF has_script
          THEN /\ Began("script")
               /\ Popen("script", dh_options, build_entered)
               /\ last_status' = st
               /\ IF run(st) THEN Fail("script") ELSE Pass("sanity_check")
          ELSE /\ Pass("sanity_check")
               /\ UNCHANGED <<cur_ops, entered, last_status, started>>
    /\ UNCHANGED <<rvars, auxvars, replacements, variant, build_dir, fetchvars, ignore,
                   requirements, repo, converted, store, dh_options, hits,
                   done, fetched, store_written, parent_debs,
                   run_no, first_run, build_entered>>

\* pip_accel.deps.sanity_check_dependencies(package.name, auto_install):
\* raises when a build dependency is missing and is not installed.
sanity_check_dependencies ==
    /\ variant = "converter" /\ pc = "sanity_check"
    /\ Began("build_deps")
    /\ \E ok \in BOOLEAN :
          IF ok THEN Pass("build") ELSE Fail("build_dep")
    /\ UNCHANGED <<rvars, auxvars, replacements, variant, build_dir, fetchvars, ignore,
                   requirements, repo, converted, store, dh_options, hits,
                   done, fetched, store_written, last_status, parent_debs,
                   run_no, first_run, build_entered, started>>

\* A scan of the parent directory that takes any '.deb' file.
all_debs(package, directory) == directory

\* The files of a directory that pass the test of build's loop over
\* os.listdir: fnmatch.fnmatch(filename, '<debian_name>_*.deb').
matching_debs(package, directory) == {f \in directory : f.name = package}

\* A move that leaves the repository without the file.
shutil_move_lost(file, repository) == repository

\* shutil.move(file, repository): the repository afterwards.
shutil_move(file, repository) == repository \cup {file}

\* The '.deb' files one run of dpkg-buildpackage can leave in the parent
\* directory, whatever its exit status.
ProducedSets == {P \in SUBSET Artifacts : Cardinality(P) <= MaxProduced}

\* build(package, repository, verbose) and the append of its result: sets
\* DH_OPTIONS, runs dpkg-buildpackage, scans the parent directory for
\* '<debian_name>_*.deb', moves the first file found into the repository.
build ==
    /\ variant = "converter" /\ pc = "build"
    /\ Began("build")
    /\ build_entered' = TRUE
    /\ dh_options' = environ_in_build(dh_options)
    /\ Popen("build", dh_options', TRUE)
    /\ \E st \in ExitStatuses, produced \in ProducedSets :
          LET listdir == parent_debs \cup produced IN
          /\ last_status' = st
          /\ IF run(st)
             THEN /\ Fail("build")
                  /\ parent_debs' = listdir
                  /\ UNCHANGED <<repo, converted, done>>
             ELSE IF matching_debs(Pkg, listdir) = {}
             THEN /\ Fail("no_build_found")
                  /\ parent_debs' = listdir
                  /\ UNCHANGED <<repo, converted, done>>
             ELSE \E filename \in matching_debs(Pkg, listdir) :
                    /\ parent_debs' = listdir \ {filename}
                    /\ repo' = shutil_move(filename, repo)
                    /\ converted' = Append(converted, Entry(filename))
                    /\ done' = done \cup {Pkg}
                    /\ NextPackage("find_build", "cleanup")
                    /\ UNCHANGED <<error, any_failed>>
    /\ UNCHANGED <<rvars, auxvars, replacements, variant, build_dir, fetchvars,
                   ignore, requirements, store, hits, fetched, store_written,
                   run_no, first_run>>

\* The end of convert of converter.py: shutil.rmtree(build_dir), return.
convert_return ==
    /\ variant = "converter" /\ pc = "cleanup"
    /\ build_dir' = FALSE
    /\ pc' = "returned"
    /\ UNCHANGED <<rvars, auxvars, replacements, variant, error, fetchvars, ignore,
                   requirements, cur, repo, converted, store, dh_options,
                   histvars, parent_debs>>

\* A second call convert(pip_args, config) with the arguments, configuration
\* and repository of a call that returned.
convert_again ==
    /\ variant = "converter" /\ pc = "returned" /\ run_no = 1
    /\ run_no' = 2
    /\ first_run' = [fetched |-> fetched, requirements |-> requirements,
                     hits |-> hits, result |-> converted]
    /\ pc' = "start"
    /\ requirements' = <<>> /\ cur' = 0 /\ converted' = <<>>
    /\ i' = 0 /\ unpacks' = 0 /\ downloads' = 0
    /\ cur_ops' = <<>> /\ entered' = {} /\ hits' = {} /\ done' = {}
    /\ fetched' = {}
    /\ build_entered' = FALSE /\ started' = NoSubprocess
    /\ UNCHANGED <<rvars, auxvars, replacements, variant, error, build_dir,
                   sys_stdout, ignore, repo, store, dh_options, parent_debs,
                   prev_ok, any_failed, store_written, last_status>>

----------------------------------------------------------------------------
\* The loop of Converter.convert (util/converter.py).

\* Package.is_built: an artifact of the package is in the repository.
is_built(package, repository) == \E f \in repository : f.name = package

\* Top of the loop body of Converter.convert: a package that is built
\* already is skipped.
Converter_convert_loop ==
    /\ variant = "util" /\ pc = "is_built"
    /\ hits' = IF \E f \in repo : f.name = Pkg THEN hits \cup {Pkg} ELSE hits
    /\ cur_ops' = <<>>
    /\ IF is_built(Pkg, repo)
       THEN /\ done' = done \cup {Pkg}
            /\ NextPackage("is_built", "persist")
       ELSE /\ pc' = "apply_workarounds"
            /\ UNCHANGED <<done, cur, prev_ok>>
    /\ UNCHANGED <<rvars, auxvars, replacements, variant, error, build_dir, fetchvars,
                   ignore, requirements, repo, converted, store, dh_options,
                   any_failed, entered, fetched, store_written, last_status,
                   parent_debs, run_no, first_run, build_entered, started>>

\* Converter.apply_workarounds: removes the bundled paramiko of Fabric.
Converter_apply_workarounds ==
    /\ variant = "util" /\ pc = "apply_workarounds"
    /\ Began("apply_workarounds")
    /\ Pass("debianize")
    /\ UNCHANGED <<rvars, auxvars, replacements, variant, build_dir, fetchvars, ignore,
                   requirements, repo, converted, store, dh_options, hits,
                   done, fetched, store_written, last_status, parent_debs,
                   run_no, first_run, build_entered, started>>

\* Converter.debianize: python setup.py ... debianize, which writes
\* debian/control; raises when p.returncode > 0.
Converter_debianize ==
    /\ variant = "util" /\ pc = "debianize"
    /\ Began("debianize")
    /\ \E returncode \in ExitStatuses, n \in 0..MaxParagraphs :
          /\ last_status' = returncode
          /\ IF returncode > 0
             THEN /\ Fail("debianize")
                  /\ UNCHANGED <<control, control_before, patched>>
             ELSE /\ IF returncode = 0 THEN Pass("parse_egg_req")
                     ELSE Unnoticed("parse_egg_req")
                  /\ control' = StdebControl(n, Pkg)
                  /\ control_before' = control'
                  /\ patched' = <<>>
    /\ UNCHANGED <<rvars, storevars, debian_deps, section, replacements,
                   variant, build_dir, fetchvars, ignore, requirements, repo,
                   converted, store, dh_options, hits, done, fetched,
                   store_written, parent_debs, run_no, first_run, build_entered, started>>

\* Converter.parse_egg_req: pkg_resources.Requirement.parse raises on a line
\* it cannot parse.
Converter_parse_egg_req ==
    /\ variant = "util" /\ pc = "parse_egg_req"
    /\ Began("parse_egg_req")
    /\ \E parses \in BOOLEAN :
          IF parses THEN Pass("patch_rules") ELSE Fail("requires_txt")
    /\ UNCHANGED <<rvars, auxvars, replacements, variant, build_dir, fetchvars, ignore,
                   requirements, repo, converted, store, dh_options, hits,
                   done, fetched, store_written, last_status, parent_debs,
                   run_no, first_run, build_entered, started>>

\* Converter.patch_rules: raises when debian/rules has no '%:' line.
Converter_patch_rules ==
    /\ variant = "util" /\ pc = "patch_rules"
    /\ Began("patch_rules")
    /\ \E has_target \in BOOLEAN :
          IF has_target THEN Pass("patch_control") ELSE Fail("rules_format")
    /\ UNCHANGED <<rvars, auxvars, replacements, variant, build_dir, fetchvars, ignore,
                   requirements, repo, converted, store, dh_options, hits,
                   done, fetched, store_written, last_status, parent_debs,
                   run_no, first_run, build_entered, started>>

\* Converter.patch_control: the assertion on the number of paragraphs, then
\* the rewrite of debian/control.
Converter_patch_control ==
    /\ variant = "util" /\ pc = "patch_control"
    /\ Began("patch_control")
    /\ LET r == Converter_patch_control_file(control, Pkg, debian_deps,
                                             section) IN
       /\ control' = r.file
       /\ IF r.err
          THEN Fail("control_format") /\ UNCHANGED patched
          ELSE Pass("install_build_dep") /\ patched' = Append(patched, r.file)
    /\ UNCHANGED <<rvars, storevars, control_before, debian_deps, section,
                   replacements, variant, build_dir, fetchvars, ignore,
                   requirements, repo, converted, store, dh_options, hits,
                   done, fetched, store_written, last_status, parent_debs,
                   run_no, first_run, build_entered, started>>

\* Converter.patch_control once more, on the file it has patched.
Converter_patch_control_again ==
    /\ variant = "util" /\ pc = "install_build_dep" /\ Len(patched) = 1
    /\ LET r == Converter_patch_control_file(control, Pkg, debian_deps,
                                             section) IN
       /\ ~r.err
       /\ control' = r.file
       /\ patched' = Append(patched, r.file)
    /\ UNCHANGED <<rvars, storevars, control_before, debian_deps, section,
                   replacements, runvars>>

\* Converter.install_build_dep: apt-get install of the 'build-depends'
\* option of the package's section, when there is one; _install_build_dep
\* raises when p.returncode > 0.
Converter_install_build_dep ==
    /\ variant = "util" /\ pc = "install_build_dep"
    /\ \E has_build_depends \in BOOLEAN, returncode \in ExitStatuses :
          IF has_build_depends
          THEN /\ Began("build_deps")
               /\ last_status' = returncode
               /\ IF returncode > 0 THEN Fail("build_dep")
                  ELSE IF returncode = 0 THEN Pass("build")
                  ELSE Unnoticed("build")
          ELSE /\ Pass("build")
               /\ UNCHANGED <<cur_ops, entered, last_status>>
    /\ UNCHANGED <<rvars, auxvars, replacements, variant, build_dir, fetchvars, ignore,
                   requirements, repo, converted, store, dh_options, hits,
                   done, fetched, store_written, parent_debs,
                   run_no, first_run, build_entered, started>>

\* Converter.build: dpkg-buildpackage, raises when p.returncode > 0; then
\* the first '<plname>_*.deb' of the parent directory is moved into the
\* repository.
Converter_build ==
    /\ variant = "util" /\ pc = "build"
    /\ Began("build")
    /\ \E returncode \in ExitStatuses, produced \in ProducedSets :
          LET listdir == parent_debs \cup produced IN
          /\ last_status' = returncode
          /\ IF returncode > 0
             THEN /\ Fail("build")
                  /\ parent_debs' = listdir
                  /\ UNCHANGED <<repo, done>>
             ELSE IF matching_debs(Pkg, listdir) = {}
             THEN /\ Fail("no_build_found")
                  /\ parent_debs' = listdir
                  /\ UNCHANGED <<repo, done>>
             ELSE \E item \in matching_debs(Pkg, listdir) :
                    /\ parent_debs' = listdir \ {item}
                    /\ repo' = shutil_move(item, repo)
                    /\ done' = done \cup {Pkg}
                    /\ NextPackage("is_built", "persist")
                    /\ any_failed' = (any_failed \/ returncode # 0)
                    /\ UNCHANGED error
    /\ UNCHANGED <<rvars, auxvars, replacements, variant, build_dir, fetchvars,
                   ignore, requirements, converted, store, dh_options, hits,
                   fetched, store_written, run_no, first_run, build_entered, started>>

RECURSIVE Join(_, _)
\* sep.join(list)
Join(list, sep) ==
    IF list = <<>> THEN ""
    ELSE IF Len(list) = 1 THEN list[1]
    ELSE list[1] \o sep \o Join(Tail(list), sep)

\* Package.debfile: the file name of an artifact of the package in the
\* repository.
debfile(package, repository) == {f \in repository : f.name = package}

\* Converter.persist_dependencies: reads name and version back from the
\* artifact of every package, then writes the joined list to the store file.
Converter_persist_dependencies ==
    /\ variant = "util" /\ pc = "persist"
    /\ IF \E k \in 1..Len(requirements) : debfile(requirements[k], repo) = {}
       THEN /\ Raise("unreadable_artifact")
            /\ UNCHANGED <<store, store_written>>
       ELSE \E deplist \in [1..Len(requirements) -> Artifacts] :
              /\ \A k \in 1..Len(requirements) :
                    deplist[k] \in debfile(requirements[k], repo)
              /\ store' = [exists |-> TRUE,
                            content |-> Join([k \in 1..Len(deplist) |->
                                                 Entry(deplist[k])], ", ")]
              /\ store_written' = TRUE
              /\ pc' = "returned"
              /\ UNCHANGED error
    /\ UNCHANGED <<rvars, auxvars, replacements, variant, build_dir, fetchvars, ignore,
                   requirements, cur, repo, converted, dh_options, cur_ops,
                   prev_ok, any_failed, entered, hits, done, fetched,
                   last_status, parent_debs, run_no, first_run, build_entered, started>>

----------------------------------------------------------------------------
\* The repository before a run: at most MaxRepoFiles artifacts of earlier
\* runs.
Repositories == {R \in SUBSET Artifacts : Cardinality(R) <= MaxRepoFiles}

\* A list an earlier conversion of the same requirements file stored.
StaleStore == [exists |-> TRUE, content |-> "python-old (=0.1)"]

Init ==
    /\ packages = <<>> /\ order = <<>> /\ pending = <<>>
    /\ rpc = "idle"
    /\ to_ignore = <<>> /\ stack = <<>> /\ to_build = <<>>
    /\ variant \in {"converter", "util"}
    /\ replacements \in SUBSET RunNames
    /\ ignore \in IF variant = "util" THEN SUBSET RunNames ELSE {{}}
    /\ repo \in Repositories
    /\ store \in IF variant = "util"
                 THEN {[exists |-> FALSE, content |-> ""], StaleStore}
                 ELSE {[exists |-> FALSE, content |-> ""]}
    \* Converter.__init__ has made self.builddir
    /\ build_dir = (variant = "util")
    /\ pc = "start"
    /\ error = ""
    /\ i = 0 /\ unpacks = 0 /\ downloads = 0
    /\ sys_stdout = "stdout"
    /\ requirements = <<>>
    /\ cur = 0
    /\ converted = <<>>
    /\ dh_options = "unset"
    /\ parent_debs = {}
    /\ cur_ops = <<>> /\ prev_ok = TRUE /\ any_failed = FALSE
    /\ entered = {} /\ hits = {} /\ done = {} /\ fetched = {}
    /\ store_written = FALSE
    /\ last_status = 0
    /\ run_no = 1 /\ first_run = NoFirstRun
    /\ build_entered = FALSE /\ started = NoSubprocess
    /\ NoStore
    /\ NoControl /\ debian_deps = <<>> /\ section = <<>>

Next ==
    \/ convert_start
    \/ unpack_source_dists
    \/ download_source_dists
    \/ convert_find_build
    \/ debianize
    \/ patch_control
    \/ apply_script
    \/ sanity_check_dependencies
    \/ build
    \/ convert_return
    \/ convert_again
    \/ Converter_convert_start
    \/ Converter_unpack_source_dists
    \/ Converter_download_source_dists
    \/ Converter_convert_loop
    \/ Converter_apply_workarounds
    \/ Converter_debianize
    \/ Converter_parse_egg_req
    \/ Converter_patch_rules
    \/ Converter_patch_control
    \/ Converter_install_build_dep
    \/ Converter_build
    \/ Converter_persist_dependencies

Spec == Init /\ [][Next]_vars

----------------------------------------------------------------------------
\* What the claims about a conversion run speak of.

\* The run is over: convert returned or an exception left it.
Over == pc \in {"returned", "raised"}

\* The loop has been at the k-th package of the build set and past the test
\* at the top of its body.
Reached(k) == k < cur \/ (k = cur /\ pc \notin {"find_build", "is_built"})

\* The operations of the build state machine, in the order of the loop body.
StageOrder ==
    IF variant = "converter"
    THEN <<"debianize", "patch_control", "script", "build_deps", "build">>
    ELSE <<"apply_workarounds", "debianize", "parse_egg_req", "patch_rules",
           "patch_control", "build_deps", "build">>

\* Operations that run only when the configuration asks for them.
Optional == IF variant = "converter" THEN {"script"} ELSE {"build_deps"}

Position(op) == CHOOSE k \in 1..Len(StageOrder) : StageOrder[k] = op

\* ops follows StageOrder: nothing out of order, nothing twice, nothing but
\* an optional operation left out.
InStageOrder(ops) ==
    /\ \A k, m \in 1..Len(ops) : k < m => Position(ops[k]) < Position(ops[m])
    /\ \A k \in 1..Len(ops) :
          \A m \in 1..(Position(ops[k]) - 1) :
              StageOrder[m] \in Optional \/ StageOrder[m] \in Range(ops)

(* C3: in every run of either generation, a fetched package whose name is a
   key of replacements never enters the build state machine. *)
C3_ReplacedNeverBuilt ==
    \A p \in fetched : p \in replacements => p \notin entered

(* C5: when every attempt fails with DistributionNotFound, get_source_dists
   of either generation makes exactly max_retries = 10 attempts before it
   raises the retries-exceeded error, and never an 11th. *)
C5_TenAttempts ==
    /\ unpacks <= max_retries
    /\ error = "retries_exceeded" => unpacks = max_retries

(* C6: a package of the build set skips the whole build state machine if and
   only if the repository held a file matching its pattern when the loop
   reached it; then an artifact of the repository that matches the pattern
   supplies its result, and a repository without a match raises nothing. *)
C6_SkipIffArtifact ==
    \A k \in 1..Len(requirements) :
        Reached(k) =>
            LET p == requirements[k] IN
            /\ p \in hits =>
                  /\ p \notin entered
                  /\ p \in done
                  /\ variant = "converter" =>
                        \E f \in repo : f.name = p /\ converted[k] = Entry(f)
            /\ p \notin hits =>
                  \/ p \in entered
                  \/ k = cur /\ pc \in {"debianize", "apply_workarounds"}

\* A run that returned after skipping one package and building another.
C6_Witness ==
    /\ variant = "converter"
    /\ pc = "returned"
    /\ \E p \in hits : p \in done /\ p \notin entered
    /\ \E q \in entered : q \in done /\ q \notin hits

(* C7: the operations of a package that is built run in the fixed order of
   the state machine, none skipped or repeated, the fixup script before the
   build-dependency step and the native build; a stage starts only after the
   stage before it succeeded, and once a stage failed no later stage of the
   package runs. *)
C7_StagesInOrder ==
    /\ InStageOrder(cur_ops)
    /\ (cur_ops # <<>> /\ ~prev_ok) => pc = "raised"

(* C8: once a stage of a package failed, the failure has left convert: no
   later stage of any package starts and convert returns no result. *)
C8_FailurePropagates ==
    any_failed => pc = "raised"

(* C9: when a run is over, by return or by a fatal error of any stage, the
   scratch build directory made at its start has been removed. *)
C9_BuildDirRemoved ==
    Over => ~build_dir

(* C10: Converter.convert writes the dependency-store file only after every
   package of the run was skipped as built or built successfully; a run in
   which a stage failed leaves the file as it was. *)
C10_StoreOnlyAfterSuccess ==
    store_written =>
        /\ ~any_failed
        /\ \A p \in Range(requirements) : p \in done

\* Runs of converter.py keep replaced packages out, fail at once and in
\* order, and raise after max_retries attempts.
ConverterPyKeeps ==
    variant = "converter" =>
        /\ C3_ReplacedNeverBuilt
        /\ C5_TenAttempts
        /\ C7_StagesInOrder
        /\ C8_FailurePropagates

\* Whatever the exit statuses, the store file is written by a run that
\* raised nothing, once, after the loop.
StoreWrittenAtEnd ==
    store_written => pc = "returned" /\ error = "" /\ Range(requirements) \subseteq done

----------------------------------------------------------------------------
\* The dependency store of util/converter.py: persist_dependencies and
\* recall_dependencies on the files of DEPENDENCY_STORE, one file per
\* fingerprint of a requirement file's content.

\* Paths of requirement files, and the byte contents they can have.
ReqPaths == {"dev.txt", "prod.txt"}

Contents == {"flask", "flask==0.9", "nose"}

\* Lists persist_dependencies can be asked to store.
DepLists == {"", "python-flask (=0.9)", "python-flask (=0.9), python-nose (=1.2)"}

\* hashlib.sha1(content).hexdigest(): the digest, kept symbolic. Distinct
\* contents have distinct digests (no collision among the contents tried).
sha1(content) == "sha1(" \o content \o ")"

\* A find_dependency_file that names the store file after the path.
find_dependency_file_by_path(file, files) == file \o ".txt"

\* Converter.find_dependency_file: '<fingerprint>.txt', the fingerprint
\* taken from the content of the requirement file.
find_dependency_file(file, files) == sha1(files[file]) \o ".txt"

\* open(path, 'w') and write: the file is created or replaced.
WriteFile(dir, name, content) ==
    [n \in DOMAIN dir \cup {name} |-> IF n = name THEN content ELSE dir[n]]

\* Converter.persist_dependencies of a Converter made for the requirement
\* file f, its packages giving the list deplist.
persist_dependencies ==
    \E f \in ReqPaths, deplist \in DepLists :
       /\ dep_store' = WriteFile(dep_store, find_dependency_file(f, req_files),
                                 deplist)
       /\ persisted' = [persisted EXCEPT ![req_files[f]] = deplist]
       /\ UNCHANGED <<req_files, recalled>>
       /\ UNCHANGED <<rvars, replacements, runvars, ctlvars>>

\* Converter.recall_dependencies of a Converter made for the requirement
\* file f: the content of the store file, or the exception when
\* os.path.isfile says there is none.
recall_dependencies ==
    \E f \in ReqPaths :
       LET dependency_file == find_dependency_file(f, req_files) IN
       /\ recalled' =
             IF dependency_file \in DOMAIN dep_store
             THEN [file |-> f, raised |-> FALSE,
                   value |-> dep_store[dependency_file],
                   persisted_then |-> persisted[req_files[f]]]
             ELSE [file |-> f, raised |-> TRUE, value |-> NoValue,
                   persisted_then |-> persisted[req_files[f]]]
       /\ UNCHANGED <<req_files, dep_store, persisted>>
       /\ UNCHANGED <<rvars, replacements, runvars, ctlvars>>

\* The user rewrites a requirement file between two calls.
edit_requirements ==
    \E f \in ReqPaths, content \in Contents :
       /\ req_files[f] # content
       /\ req_files' = [req_files EXCEPT ![f] = content]
       /\ UNCHANGED <<dep_store, persisted, recalled>>
       /\ UNCHANGED <<rvars, replacements, runvars, ctlvars>>

InitStore ==
    /\ packages = <<>> /\ order = <<>> /\ pending = <<>>
    /\ rpc = "idle"
    /\ to_ignore = <<>> /\ stack = <<>> /\ to_build = <<>>
    /\ replacements = {}
    /\ NoRun
    /\ NoControl /\ debian_deps = <<>> /\ section = <<>>
    /\ req_files \in [ReqPaths -> Contents]
    /\ dep_store = <<>>
    /\ persisted = [content \in Contents |-> NoValue]
    /\ recalled = [file |-> "", raised |-> FALSE, value |-> NoValue,
                   persisted_then |-> NoValue]

NextStore == persist_dependencies \/ recall_dependencies \/ edit_requirements

SpecStore == InitStore /\ [][NextStore]_vars

(* C11: recall_dependencies on a requirement file returns exactly the list
   last persisted for a file of the same byte content, whatever was
   persisted or recalled for other contents in between, and raises, handing
   back nothing, when no list was ever persisted for that content; two paths
   with the same bytes share one entry. *)
C11_RecallByContent ==
    recalled.file # "" =>
        IF recalled.persisted_then = NoValue
        THEN recalled.raised /\ recalled.value = NoValue
        ELSE ~recalled.raised /\ recalled.value = recalled.persisted_then

\* A list persisted through one path was recalled through the other path,
\* which holds the same bytes, after the first path was rewritten.
C11_Witness ==
    /\ ~recalled.raised
    /\ recalled.value \in DepLists \ {""}
    /\ \E f \in ReqPaths : f # recalled.file /\ req_files[f] # req_files[recalled.file]
    /\ \E n \in DOMAIN dep_store : dep_store[n] # recalled.value

----------------------------------------------------------------------------
\* Claims about the stages of the loop.

(* C13: when the native build command exited with status 0, build yields an
   artifact if and only if the parent directory holds a file matching
   '<native-name>_*.deb'. With no match it raises the could-not-find-build
   error, moves nothing into the repository and the package is not reported
   as converted; with a match exactly one file, a matching one, is moved. *)
C13_BuildYieldsIffMatch ==
    [][(pc = "build" /\ last_status' = 0) =>
          LET moved == repo' \ repo
              listdir == parent_debs' \cup moved
              matches == {f \in listdir : f.name = Pkg}
          IN /\ moved \subseteq matches
             /\ moved \cap parent_debs' = {}
             /\ matches = {} =>
                   /\ pc' = "raised" /\ error' = "no_build_found"
                   /\ repo' = repo
                   /\ converted' = converted
                   /\ Pkg \notin done'
             /\ matches # {} =>
                   /\ Cardinality(moved) = 1
                   /\ error' = ""
                   /\ Pkg \in done'
                   /\ variant = "converter" =>
                         \E f \in moved : converted' = Append(converted, Entry(f))
      ]_vars

\* The build command exited with status 0 and left only files of another
\* package: nothing was moved.
C13_Witness ==
    /\ pc = "raised" /\ error = "no_build_found"
    /\ last_status = 0
    /\ parent_debs # {}
    /\ Pkg \notin done

(* C17: for every external tool the build state machine invokes (metadata
   generation, build-dependency installation, fixup script, native build),
   an exit status other than 0, a negative one of a child killed by a signal
   included, makes the stage fail: the exception is raised and no next stage
   is started. *)
C17_NonZeroStatusFails ==
    last_status # 0 => pc = "raised"

----------------------------------------------------------------------------
\* Claims about get_source_dists.

\* A run is inside the retry loop of get_source_dists.
Fetching == pc \in {"unpack", "download"}

\* The errors that end get_source_dists.
FetchErrors == {"fetch_error", "retries_exceeded"}

\* Unpack and download calls pair up: one download after each unpack that
\* failed with DistributionNotFound, none after the unpack that succeeded
\* or failed otherwise.
C19_Counts ==
    /\ pc = "start" => unpacks = 0 /\ downloads = 0
    /\ pc = "unpack" => downloads = unpacks
    /\ pc = "download" => unpacks = downloads + 1
    /\ error = "retries_exceeded" => downloads = unpacks /\ unpacks > 0
    /\ error = "fetch_error" => unpacks \in {downloads, downloads + 1}
    /\ (pc \notin {"start", "unpack", "download"} /\ error \notin FetchErrors) =>
          \/ unpacks = downloads + 1
          \/ unpacks = 0 /\ downloads = 0 /\ pc = "raised"

\* Outside the retry loop no call is made; inside, one call per step.
C19_Calls ==
    /\ ~Fetching /\ pc' # "start" => unpacks' = unpacks /\ downloads' = downloads
    /\ pc = "unpack" =>
          /\ unpacks' = unpacks + 1 /\ downloads' = downloads
          /\ pc' = "download" \/ ~Fetching'
    /\ pc = "download" =>
          /\ downloads' = downloads + 1 /\ unpacks' = unpacks
          /\ pc' \in {"unpack", "raised"}

(* C19: in get_source_dists of either generation, every unpack attempt that
   fails with DistributionNotFound is followed by exactly one download step
   before the next unpack attempt; the first successful unpack ends the
   fetch and no further unpack or download call is made; any other failure,
   of unpack or of download, leaves the function at once. *)
C19_OneDownloadPerFailedUnpack ==
    []C19_Counts /\ [][C19_Calls]_vars

\* A fetch that succeeded at its third attempt, after two downloads.
C19_Witness ==
    /\ pc \notin {"start", "unpack", "download", "raised"}
    /\ unpacks = 3 /\ downloads = 2

(* C20: during every fetch, over all unpack and download calls of
   get_source_dists of either generation, sys.stdout is bound to the error
   stream; once get_source_dists is left, by return or by an exception, it
   is bound to the stream it was bound to before. *)
C20_StdoutRedirected ==
    /\ Fetching => sys_stdout = "stderr"
    /\ ~Fetching => sys_stdout = "stdout"

----------------------------------------------------------------------------
\* Claims about the result of a run.

\* list holds one entry per package of the build set, in its order, each
\* read from an artifact of that package in the repository.
EntryPerPackage(list) ==
    /\ Len(list) = Len(requirements)
    /\ \A k \in 1..Len(requirements) :
          \E f \in repo : f.name = requirements[k] /\ list[k] = Entry(f)

\* What a run that returned hands on: the list convert of converter.py
\* returns, the content Converter.convert leaves in the store file.
ResultFollowsBuildSet ==
    pc = "returned" =>
        IF variant = "converter"
        THEN EntryPerPackage(converted)
        ELSE /\ store.exists
             /\ \E list \in [1..Len(requirements) -> {Entry(f) : f \in repo}] :
                   /\ EntryPerPackage(list)
                   /\ store.content = Join(list, ", ")

(* C18: when convert returns, the result holds exactly one 'name (=version)'
   entry per package of the build set, in the order of the build set, for a
   package found in the repository and a package just built alike, name and
   version read from the artifact in the repository; a fetched package that
   replacements names contributes no entry; the content of the dependency
   store is these entries joined by ', '. *)
C18_EntryPerBuiltPackage ==
    pc = "returned" =>
        /\ ResultFollowsBuildSet
        /\ \A p \in fetched \cap replacements : p \notin Range(requirements)

(* C12 as stated: after a run that returned, a second run of the same
   requirement set with the same replacements and repository starts no
   debianize, patch, script or build step for any package and returns the
   result list of the first run. *)
C12_SecondRunSameResult ==
    run_no = 2 =>
        /\ entered = {}
        /\ pc = "returned" => converted = first_run.result

\* The package p has one artifact in the repository, not several.
OneArtifact(p) == Cardinality({f \in repo : f.name = p}) = 1

(* C12 amended: after a run that returned, the repository holds an artifact
   for every package of the build set, and a second run of the same
   requirement set with the same replacements and repository starts no
   debianize, patch, script or build step for any package; it returns one
   entry per package of the build set, read from an artifact of that package
   in the repository, which is the entry of the first run for every package
   that has a single artifact there. *)
C12_SecondRunBuildsNothing ==
    /\ (pc = "returned" /\ variant = "converter") =>
          \A p \in Range(requirements) : find_build(p, repo) # {}
    /\ run_no = 2 =>
          /\ entered = {}
          /\ Range(cur_ops) = {}
          /\ pc = "returned" =>
                /\ EntryPerPackage(converted)
                /\ \A k \in 1..Len(requirements) :
                      OneArtifact(requirements[k]) =>
                          converted[k] = first_run.result[k]

\* A second run returned after a first run that built a package.
C12_Witness ==
    /\ run_no = 2 /\ pc = "returned"
    /\ converted # <<>>
    /\ first_run.hits # Range(first_run.requirements)

----------------------------------------------------------------------------
\* patch_control on every control file and configuration: a run that has
\* debianized its one package, a, and is about to patch debian/control. The
\* file need not be one stdeb writes, and patch_control may be applied to
\* its own output a second time before the run goes on.

\* Largest number of options in the package's section.
MaxOptions == 2

OptionNames == {"package", "depends", "conflicts", "section", "script",
                "build-depends"}

\* The value an option has when the section sets it.
OptionValue(name) ==
    CASE name = "package" -> <<"custom-name">>
      [] name = "depends" -> <<"python-b">>
      [] name = "conflicts" -> <<"python-c", "python-b">>
      [] name = "section" -> <<"web">>
      [] name = "script" -> <<"fix.sh">>
      [] name = "build-depends" -> <<"libssl-dev">>

Sections ==
    {[n \in D |-> OptionValue(n)] :
        D \in {E \in SUBSET OptionNames : Cardinality(E) <= MaxOptions}}

\* Values of package.debian_dependencies(replacements).
DebianDeps == {<<>>, <<"python-b">>, <<"python-c", "python-b">>}

\* Binary paragraphs a control file can hold: generated, patched before, or
\* edited by hand.
BinaryParagraphs(name) ==
    {[n \in {"package"} \cup D |-> c[n]] :
        c \in [package : {<<"python-" \o name>>, <<plname(name)>>,
                          <<"custom-name">>},
               depends : {<<"${misc:Depends}">>, <<"python-b">>,
                          <<"python-c", "${misc:Depends}">>},
               section : {<<"python">>}],
        D \in SUBSET {"depends", "section"}}

ControlFiles(name) ==
    {StdebControl(n, name) : n \in 0..MaxParagraphs}
    \cup {<<[f \in {"source"} |-> <<name>>], b>> : b \in BinaryParagraphs(name)}

InitPatch ==
    /\ packages = <<>> /\ order = <<>> /\ pending = <<>>
    /\ rpc = "idle"
    /\ to_ignore = <<>> /\ stack = <<>> /\ to_build = <<>>
    /\ variant \in {"converter", "util"}
    /\ replacements = {} /\ ignore = {}
    /\ repo = {}
    /\ store = [exists |-> FALSE, content |-> ""]
    /\ build_dir = TRUE
    /\ pc = "patch_control"
    /\ error = ""
    /\ i = (IF variant = "converter" THEN 0 ELSE 1)
    /\ unpacks = 1 /\ downloads = 0
    /\ sys_stdout = "stdout"
    /\ requirements = <<"a">>
    /\ cur = 1
    /\ converted = <<>>
    /\ dh_options = "unset"
    /\ parent_debs = {}
    /\ cur_ops = (IF variant = "converter" THEN <<"debianize">>
                  ELSE <<"apply_workarounds", "debianize", "parse_egg_req",
                         "patch_rules">>)
    /\ prev_ok = TRUE /\ any_failed = FALSE
    /\ entered = {"a"} /\ hits = {} /\ done = {} /\ fetched = {"a"}
    /\ store_written = FALSE
    /\ last_status = 0
    /\ run_no = 1 /\ first_run = NoFirstRun
    /\ build_entered = FALSE
    /\ started = (IF variant = "converter"
                  THEN [op |-> "debianize", env |-> dh_options,
                        after_build |-> FALSE]
                  ELSE NoSubprocess)
    /\ NoStore
    /\ control \in ControlFiles("a")
    /\ control_before = control
    /\ patched = <<>>
    /\ debian_deps \in DebianDeps
    /\ section \in Sections

NextPatch ==
    \/ patch_control
    \/ patch_control_again
    \/ apply_script
    \/ sanity_check_dependencies
    \/ build
    \/ convert_return
    \/ Converter_patch_control
    \/ Converter_patch_control_again
    \/ Converter_install_build_dep
    \/ Converter_build
    \/ Converter_persist_dependencies

SpecPatch == InitPatch /\ [][NextPatch]_vars

\* patch_control has been started for the package the loop is at.
PatchStarted == "patch_control" \in Range(cur_ops)

(* C14: patch_control fails with the format error whenever debian/control
   holds a number of paragraphs other than two (none, one, three or more),
   and only then; the file is left exactly as it was, and no later stage of
   the package (script, build dependencies, build) runs. *)
C14_FormatErrorLeavesFile ==
    /\ (PatchStarted /\ Len(control_before) # 2) =>
          /\ pc = "raised" /\ error = "control_format"
          /\ control = control_before
          /\ cur_ops[Len(cur_ops)] = "patch_control"
    /\ error = "control_format" => PatchStarted /\ Len(control_before) # 2

\* patch_control raised on a file of three paragraphs.
C14_Witness ==
    /\ pc = "raised" /\ error = "control_format"
    /\ Len(control_before) = 3
    /\ control = control_before

\* The binary paragraph as the last run of patch_control wrote it.
Patched == patched[Len(patched)][2]

(* C15: once patch_control has succeeded, the Package field of the binary
   paragraph is the computed native name, whatever the package's section of
   the configuration holds, a 'package' option included, and the reserved
   key 'script' is no field of the paragraph. *)
C15_PackageIsNativeName ==
    patched # <<>> =>
        /\ Patched["package"] = <<plname(Pkg)>>
        /\ "script" \notin DOMAIN Patched

\* What each generation keeps of it: converter.py never writes a Script
\* field and writes the native name unless the section sets 'package';
\* util/converter.py always writes the native name.
PatchedKeeps ==
    patched # <<>> =>
        IF variant = "converter"
        THEN /\ "script" \notin DOMAIN Patched
             /\ "package" \notin DOMAIN section =>
                   Patched["package"] = <<plname(Pkg)>>
        ELSE /\ Patched["package"] = <<plname(Pkg)>>
             /\ "script" \in DOMAIN Patched <=>
                   "script" \in DOMAIN section \cup DOMAIN control_before[2]

(* C16: patch_control applied a second time, to the file it has patched,
   with the same package, dependencies and configuration, writes the same
   file again: the merge is idempotent and no dependency is listed twice. *)
C16_PatchIdempotent ==
    Len(patched) = 2 =>
        /\ patched[2] = patched[1]
        /\ \A k, m \in 1..Len(Get(Patched, "depends")) :
              k # m => Patched["depends"][k] # Patched["depends"][m]

\* patch_control of converter.py is idempotent: deb_pkg_tools writes every
\* merged dependency field as a sorted set.
ConverterPyIdempotent ==
    variant = "converter" => C16_PatchIdempotent

----------------------------------------------------------------------------
\* Claims about what get_required_packages leaves out.

\* The candidate c is declared by the built candidate b and is reachable
\* through declared dependencies from the replaced candidate a.
Shared(a, b, c) ==
    /\ a \in Candidates \cap replacements
    /\ b \in Range(to_build)
    /\ c \in Candidates
    /\ c \in packages[b]
    /\ c \in ReachableFrom({a})

\* Every candidate a package of the build set declares is in the build set.
DependencyClosed ==
    \A b \in Range(to_build) :
        \A d \in packages[b] \cap Candidates : d \in Range(to_build)

(* C21: whenever get_required_packages returns, a candidate C reachable
   through declared dependencies from a replaced candidate A is not in the
   build set, also when a candidate B of the build set declares C; so the
   build set is not closed under the candidates' declared dependencies
   whenever a replaced candidate and a built one share such a C. *)
C21_SharedDependencyExcluded ==
    rpc = "done" =>
        /\ \A a \in Candidates \cap replacements :
              \A c \in ReachableFrom({a}) : c \notin Range(to_build)
        /\ (\E a, b, c \in Candidates : Shared(a, b, c)) => ~DependencyClosed

\* a is replaced and declares c, b is built and declares c, c is left out.
C21_Witness ==
    /\ rpc = "done"
    /\ \E a, b, c \in Candidates :
          /\ Shared(a, b, c)
          /\ c \in packages[a]
          /\ c # a
          /\ c \notin Range(to_build)

(* C22: in a run of convert of converter.py, once build has been entered for
   a package, os.environ['DH_OPTIONS'] is '--no-guessing-deps' and stays so
   whether build returned or raised; every subprocess started from the first
   build on (the build command itself, debianize and the fixup script of later
   packages) inherits that value, and a subprocess started before the first
   build of the run does not. *)
C22_DhOptionsStaysSet ==
    variant = "converter" =>
        /\ build_entered => dh_options = "--no-guessing-deps"
        /\ started.op # "none" =>
              (started.env = "--no-guessing-deps" <=> started.after_build)

C22_Witness ==
    /\ variant = "converter"
    /\ cur = 2
    /\ requirements[1] \in done \ hits
    /\ started.op \in {"debianize", "script"}
    /\ started.after_build
    /\ started.env = "--no-guessing-deps"

====
